---- MODULE Spec2Model ----
(***************************************************************************)
(* Build-and-package orchestrator of yasakei/neutron (src/package.py).     *)
(*                                                                         *)
(* The module models main(): host detection, the Windows preflight check,  *)
(* build_neutron (the configure retry loop with the dependency recovery    *)
(* engine), build_box, the artifact locator, the smoke tests, the package  *)
(* assembly and the optional NSIS installer.  Sub-processes (cmake, vcpkg, *)
(* the built binaries, makensis) are the environment: their outcomes are   *)
(* drawn from small sets.                                                  *)
(***************************************************************************)
EXTENDS Integers, Sequences, FiniteSets, TLC

(***************************************************************************)
(* Program constants and model bounds                                      *)
(***************************************************************************)

\* build_neutron: max_attempts = 3
max_attempts == 3

\* bound: number of "ERROR: <archive>" lines a manifest-install log may hold
MaxErrLines == 1

\* bound: number of entries the downloads cache may hold when main starts
MaxCacheFiles == 1

(***************************************************************************)
(* The vcpkg downloads cache  <cwd>/vcpkg/downloads                        *)
(***************************************************************************)

\* names of entries of the downloads directory
DlNames == {"foo.zip", "PowerShell-7.5.4-win-x64.zip", "pkg.tar.gz"}

\* fname.lower().endswith('.zip')
IsZipName(n) == n \in {"foo.zip", "PowerShell-7.5.4-win-x64.zip"}

\* 'powershell' in fname.lower() and fname.lower().endswith('.zip')
IsPowerShellZip(n) == n = "PowerShell-7.5.4-win-x64.zip"

\* what an entry of the downloads directory is:
\*   absent  - no such entry
\*   empty   - regular file of length 0
\*   corrupt - non-empty regular file that zipfile.ZipFile cannot open
\*   badcrc  - non-empty archive that opens and whose testzip() names a member
\*   valid   - non-empty regular file (for a .zip name: opens, testzip() is None)
\*   dir     - a directory
Kinds == {"absent", "empty", "corrupt", "badcrc", "valid", "dir"}

\* entries of <cwd>/vcpkg/downloads/tools
ToolNames == {"7zip-24.09-windows", "PowerShell-7.5.4-win"}

\* '7zip' in entry.lower() or '7-zip' in entry.lower() or entry.lower().startswith('7zip')
Is7zipTool(t) == t = "7zip-24.09-windows"

\* re.search(r'(powershell[-_].*?\d[\d\.\-]*[-_]?win)', fname) on the one
\* PowerShell archive name of DlNames
ToolNameFor(n) == "PowerShell-7.5.4-win"

\* a tool folder is absent, holds what an earlier extraction left ("old"),
\* holds the tree _manual_extract_zip moved in ("new"), or holds the old tree
\* with the staging directory moved inside it ("mixed")
ToolStates == {"absent", "old", "new", "mixed"}

\* the cache: the downloads entries, the tool folders, and the paths whose
\* removal fails (os.remove / shutil.rmtree raise: locked file, antivirus)
CacheStates ==
    [dl : [DlNames -> Kinds], tools : [ToolNames -> ToolStates],
     locked : SUBSET (DlNames \cup ToolNames)]

\* the mutant of the scan: the result of testzip() is read the wrong way round,
\* an archive that passes its integrity test is removed
CleanupRemovedValid(c) ==
    {n \in DlNames :
        /\ n \notin c.locked
        /\ \/ c.dl[n] = "empty"
           \/ IsZipName(n) /\ c.dl[n] \in {"corrupt", "valid"}}

\* _cleanup_vcpkg_downloads: the entries the scan removes.  A regular file of
\* length 0 is removed; a .zip that cannot be opened or whose testzip() names a
\* bad member is removed; a failing os.remove is swallowed and the entry stays.
CleanupRemoved(c) ==
    {n \in DlNames :
        /\ n \notin c.locked
        /\ \/ c.dl[n] = "empty"
           \/ IsZipName(n) /\ c.dl[n] \in {"corrupt", "badcrc"}}

\* the mutant of _cleanup_vcpkg_downloads: an archive whose testzip() names a
\* bad member is reported as removed and left in place
CleanupKeepsBadCrc(c) ==
    LET removed == CleanupRemoved(c)
    IN  [removed |-> removed,
         cache   |-> [c EXCEPT !.dl =
                        [n \in DlNames |-> IF n \in removed /\ c.dl[n] # "badcrc"
                                           THEN "absent" ELSE c.dl[n]]]]

\* _cleanup_vcpkg_downloads(root_dir): the returned list and the cache after it
_cleanup_vcpkg_downloads(c) ==
    LET removed == CleanupRemoved(c)
    IN  [removed |-> removed,
         cache   |-> [c EXCEPT !.dl =
                        [n \in DlNames |-> IF n \in removed THEN "absent" ELSE c.dl[n]]]]

\* points at which _manual_extract_zip can fail on a valid archive
XFail == {"none", "extract", "move"}

\* _manual_extract_zip(zip_path, target_dir): kind is what zip_path is, tool the
\* state of target_dir, lockedTarget whether rmtree(target_dir) fails, xfail the
\* step that fails.  Returns the result and the state of target_dir after it.
_manual_extract_zip(kind, tool, lockedTarget, xfail) ==
    IF kind = "absent" THEN [ok |-> FALSE, tool |-> tool]
    ELSE IF kind # "valid" \/ xfail = "extract" THEN [ok |-> FALSE, tool |-> tool]
    ELSE LET afterRm == IF tool = "absent" \/ ~lockedTarget THEN "absent" ELSE tool
         IN  IF xfail = "move" THEN [ok |-> FALSE, tool |-> afterRm]
             ELSE [ok |-> TRUE,
                   tool |-> IF afterRm = "absent" THEN "new" ELSE "mixed"]

\* words the log is searched for (content.lower())
Words == {"7zip", "pwsh.exe failed", "pwsh.dll", "powershell-core", "failed"}

\* a log text that contains 'pwsh.exe failed' contains 'failed'
WordSets == {w \in SUBSET Words : "pwsh.exe failed" \in w => "failed" \in w}

\* paths an "ERROR: <path>.<archive extension>" line can name
ErrPaths == DlNames

\* the manifest-install log of the build directory: missing, unreadable, or a
\* text with its ERROR lines and the words it contains
Logs ==
    [state : {"missing", "unreadable", "ok"},
     errs  : {e \in SUBSET ErrPaths : Cardinality(e) <= MaxErrLines},
     words : WordSets]

NoLog == [state |-> "missing", errs |-> {}, words |-> {}]

\* one text for each way the searches of lines 350 and 364 can come out
EngineWordSets ==
    {{}, {"7zip"}, {"pwsh.dll"}, {"7zip", "pwsh.dll"}, {"powershell-core"},
     {"powershell-core", "failed"}, {"pwsh.exe failed", "failed"}}

\* the logs a failed configure leaves: a missing or unreadable log has no text
EngineLogs ==
    {l \in Logs : /\ l.words \in EngineWordSets
                  /\ l.state # "ok" => l = [NoLog EXCEPT !.state = l.state]}

\* line 364:  a or b or (c and d)
PwshFailure(log) ==
    \/ "pwsh.exe failed" \in log.words
    \/ "pwsh.dll" \in log.words
    \/ ("powershell-core" \in log.words /\ "failed" \in log.words)

\* the mutant of the deletion of the files the log names: every file of the
\* downloads directory is deleted as soon as the log names one
LogRemovedAll(log, c) ==
    IF log.errs = {} THEN {}
    ELSE {n \in DlNames : c.dl[n] \notin {"absent", "dir"} /\ n \notin c.locked}

\* lines 331-347: the files named by ERROR lines that exist and are removed
LogRemoved(log, c) ==
    {n \in log.errs : c.dl[n] \notin {"absent", "dir"} /\ n \notin c.locked}

\* lines 349-361: the 7zip tool folders removed
ToolsRemoved(log, c) ==
    IF "7zip" \in log.words
    THEN {t \in ToolNames : Is7zipTool(t) /\ c.tools[t] # "absent" /\ t \notin c.locked}
    ELSE {}

\* the cache after the deletions of lines 331-361
AfterDeletions(log, c) ==
    [c EXCEPT
       !.dl = [n \in DlNames |-> IF n \in LogRemoved(log, c) THEN "absent" ELSE c.dl[n]],
       !.tools = [t \in ToolNames |-> IF t \in ToolsRemoved(log, c) THEN "absent"
                                       ELSE c.tools[t]]]

\* lines 379-402: manual extraction of every PowerShell archive of the cache
AfterExtraction(c, xfail) ==
    LET zips == {n \in DlNames : IsPowerShellZip(n) /\ c.dl[n] # "absent"}
    IN  IF zips = {} THEN [ok |-> FALSE, cache |-> c]
        ELSE LET n == CHOOSE z \in zips : TRUE
                 t == ToolNameFor(n)
                 r == _manual_extract_zip(c.dl[n], c.tools[t], t \in c.locked, xfail)
             IN  [ok |-> r.ok, cache |-> [c EXCEPT !.tools[t] = r.tool]]

\* the mutant of _handle_vcpkg_manifest_log: the early "return False" of line 372
\* is missing, the remediation text is printed and the call goes on
HandleLogNoEarlyReturn(log, c, xfail) ==
    IF log.state # "ok"
    THEN [ret |-> FALSE, cache |-> c, remediation |-> FALSE,
          deleted |-> {}, scanned |-> FALSE, extracted |-> FALSE]
    ELSE LET c1 == AfterDeletions(log, c)
             del1 == LogRemoved(log, c) \cup ToolsRemoved(log, c)
             cl == _cleanup_vcpkg_downloads(c1)
             ex == AfterExtraction(cl.cache, xfail)
         IN  [ret |-> (del1 # {}) \/ (cl.removed # {}) \/ ex.ok,
              cache |-> ex.cache, remediation |-> PwshFailure(log),
              deleted |-> del1 \cup cl.removed, scanned |-> TRUE,
              extracted |-> ex.ok]

\* the mutant of _handle_vcpkg_manifest_log: a log that cannot be read is taken
\* for an empty text, and the call goes on to the cleanup pass and the extraction
HandleLogUnreadableAsEmpty(log, c, xfail) ==
    IF log.state = "missing"
    THEN [ret |-> FALSE, cache |-> c, remediation |-> FALSE,
          deleted |-> {}, scanned |-> FALSE, extracted |-> FALSE]
    ELSE LET c1 == AfterDeletions(log, c)
             del1 == LogRemoved(log, c) \cup ToolsRemoved(log, c)
         IN  IF PwshFailure(log)
             THEN [ret |-> FALSE, cache |-> c1, remediation |-> TRUE,
                   deleted |-> del1, scanned |-> FALSE, extracted |-> FALSE]
             ELSE LET cl == _cleanup_vcpkg_downloads(c1)
                      ex == AfterExtraction(cl.cache, xfail)
                  IN  [ret |-> (del1 # {}) \/ (cl.removed # {}) \/ ex.ok,
                       cache |-> ex.cache, remediation |-> FALSE,
                       deleted |-> del1 \cup cl.removed, scanned |-> TRUE,
                       extracted |-> ex.ok]

\* _handle_vcpkg_manifest_log(build_dir, root_dir): result (True = retry), the
\* cache after it, whether the remediation text was printed, and what was
\* deleted or extracted
_handle_vcpkg_manifest_log(log, c, xfail) ==
    IF log.state # "ok"
    THEN [ret |-> FALSE, cache |-> c, remediation |-> FALSE,
          deleted |-> {}, scanned |-> FALSE, extracted |-> FALSE]
    ELSE LET c1 == AfterDeletions(log, c)
             del1 == LogRemoved(log, c) \cup ToolsRemoved(log, c)
         IN  IF PwshFailure(log)
             THEN [ret |-> FALSE, cache |-> c1, remediation |-> TRUE,
                   deleted |-> del1, scanned |-> FALSE, extracted |-> FALSE]
             ELSE LET cl == _cleanup_vcpkg_downloads(c1)
                      ex == AfterExtraction(cl.cache, xfail)
                  IN  [ret |-> (del1 # {}) \/ (cl.removed # {}) \/ ex.ok,
                       cache |-> ex.cache, remediation |-> FALSE,
                       deleted |-> del1 \cup cl.removed, scanned |-> TRUE,
                       extracted |-> ex.ok]

\* Diagnosis of spec 4.3: UNRECOVERABLE when the call printed the remediation
\* text, RETRY when it returns True, NONE otherwise
Diagnosis(r) ==
    IF r.remediation THEN "UNRECOVERABLE" ELSE IF r.ret THEN "RETRY" ELSE "NONE"

(***************************************************************************)
(* Host, tools and binaries                                                *)
(***************************************************************************)

\* (platform.system().lower(), platform.machine().lower()) of the hosts that
\* exist: macOS on Apple silicon, Intel and PowerPC, Linux on six machines,
\* Windows on x64, ARM64 and 32-bit x86, FreeBSD and Solaris
AllHosts ==
    {<<"darwin", "arm64">>, <<"darwin", "x86_64">>, <<"darwin", "power macintosh">>,
     <<"linux", "x86_64">>, <<"linux", "aarch64">>, <<"linux", "arm64">>,
     <<"linux", "riscv64">>, <<"linux", "i686">>, <<"linux", "armv7l">>,
     <<"windows", "amd64">>, <<"windows", "arm64">>, <<"windows", "x86">>,
     <<"freebsd", "amd64">>, <<"sunos", "i86pc">>}

\* the hosts main is run on: one for each way get_os_info can end
Hosts ==
    {<<"darwin", "arm64">>, <<"darwin", "power macintosh">>, <<"linux", "x86_64">>,
     <<"linux", "riscv64">>, <<"windows", "amd64">>, <<"freebsd", "amd64">>}

\* get_os_info(): the classifiers, and whether it calls sys.exit(1)
get_os_info(system, machine) ==
    IF system = "darwin"
    THEN IF machine = "arm64" THEN [os |-> "macos", arch |-> "arm64", exit |-> FALSE]
         ELSE IF machine = "x86_64" THEN [os |-> "macos", arch |-> "intel", exit |-> FALSE]
         ELSE [os |-> "macos", arch |-> "unknown", exit |-> TRUE]
    ELSE IF system = "linux"
    THEN IF machine = "x86_64" THEN [os |-> "linux", arch |-> "x64", exit |-> FALSE]
         ELSE IF machine \in {"aarch64", "arm64"}
              THEN [os |-> "linux", arch |-> "arm64", exit |-> FALSE]
         ELSE [os |-> "linux", arch |-> "unknown", exit |-> TRUE]
    ELSE IF system = "windows"
    THEN [os |-> "windows", arch |-> "x64", exit |-> FALSE]
    ELSE [os |-> "unknown", arch |-> "unknown", exit |-> TRUE]

\* where cmake is installed: on PATH, at one of the known Visual Studio
\* locations only, or nowhere
CmakeInstalls == {"path", "known", "none"}

\* get_cmake_command(): "cmake" when on PATH, the known location when one
\* exists, and the sentinel "cmake" otherwise
get_cmake_command(install) ==
    IF install = "path" THEN "cmake"
    ELSE IF install = "known" THEN "known-location" ELSE "cmake"

\* subprocess.check_call raises FileNotFoundError (not CalledProcessError) when
\* the executable cannot be launched: the sentinel with cmake not on PATH
LaunchFails(install) == get_cmake_command(install) = "cmake" /\ install # "path"

\* the three binaries and the places they are looked for
Binaries == {"neutron", "box", "lsp"}
Locs == {"std", "Release", "Debug", "MinSizeRel", "RelWithDebInfo", "root"}

\* neutron_bin_paths / box_bin_paths / lsp_bin_paths (lines 873-889)
bin_paths == <<"std", "Release", "Debug">>
\* neutron_search_paths / box_search_paths (lines 942-948, 962-968)
search_paths == <<"Release", "Debug", "MinSizeRel", "RelWithDebInfo", "root">>

\* for p in paths: if os.path.exists(p): found = p; break
RECURSIVE FirstExisting(_, _, _)
FirstExisting(paths, b, files) ==
    IF paths = <<>> THEN "None"
    ELSE IF <<b, Head(paths)>> \in files THEN Head(paths)
    ELSE FirstExisting(Tail(paths), b, files)

\* the mutant of the locator: the broader search comes first
LocateSearchFirst(b, files) ==
    LET first == FirstExisting(search_paths, b, files)
    IN  IF first # "None" THEN first ELSE FirstExisting(bin_paths, b, files)

\* lines 930-972: the standard list, then the broader search
LocateAfterBuild(b, files) ==
    LET first == FirstExisting(bin_paths, b, files)
    IN  IF first # "None" THEN first ELSE FirstExisting(search_paths, b, files)

\* where a build leaves a binary: the build directory with a single-configuration
\* generator, its Release sub-directory with MSVC (comment of line 872)
BuildLoc(os) == IF os = "windows" THEN "Release" ELSE "std"

(***************************************************************************)
(* State                                                                   *)
(***************************************************************************)
VARIABLES
    pc,                    \* position in main / build_neutron / build_box
    args,                  \* parsed command line: mode, installer, skip_vcpkg
    cmakeInstall,          \* where cmake is installed on the host
    host,                  \* (platform.system(), platform.machine()), lower case
    os_type, arch_type,    \* result of get_os_info
    cwd,                   \* process working directory: "root" or "build"
    VCPKG_ISSUE_DETECTED,  \* the global degraded-mode flag
    attempt,               \* build_neutron: attempt
    handled,               \* build_neutron: handled (last DiagnoseLog result)
    logScans,              \* positions in events of the DiagnoseLog calls that ran the cleanup pass
    cache,                 \* <cwd>/vcpkg/downloads and its tools folder
    cmakeCache,            \* build/CMakeCache.txt exists
    files,                 \* the binaries that exist: <<binary, place>>
    neutron_success,       \* result of build_neutron: "unset", "True", "False"
    box_success,           \* result of build_box
    real_neutron_path, real_box_path, real_lsp_path,
    out,                   \* binaries copied into the output directory
    printed,               \* console messages so far
    events,                \* tool invocations and recovery steps, in order
    exitCode,              \* "running", or the exit status of the process
    call,                  \* the last direct call of a recovery-engine function
    manifestLog,           \* the log a direct call of DiagnoseLog reads
    fault,                 \* the filesystem operation that fails in a direct call
    installer_nsi,         \* the lines of installer.nsi
    matching,              \* the glob patterns that match at least one file
    temp_nsi,              \* the lines written to installer.temp.nsi, or "none"
    changed,               \* sanitize_nsi_for_globs: changed
    again_nsi,             \* the lines a call on installer.temp.nsi writes, or "none"
    changed_again          \* changed, as that call returns it

vars == <<pc, host, args, cmakeInstall, os_type, arch_type, cwd, VCPKG_ISSUE_DETECTED,
          attempt, handled, logScans, cache, cmakeCache, files, neutron_success,
          box_success, real_neutron_path, real_box_path, real_lsp_path, out,
          printed, events, exitCode, call, manifestLog, fault, installer_nsi,
          matching, temp_nsi, changed, again_nsi, changed_again>>

envVars   == <<host, args, cmakeInstall, os_type, arch_type>>
buildVars == <<VCPKG_ISSUE_DETECTED, attempt, handled, logScans, cmakeCache,
               neutron_success>>
pathVars  == <<real_neutron_path, real_box_path, real_lsp_path>>
nsiVars   == <<installer_nsi, matching, temp_nsi, changed, again_nsi, changed_again>>
\* the state of the functions that are also exercised on their own
unitVars  == <<call, manifestLog, fault, nsiVars>>

Modes == {"package", "clean", "check_deps"}

EmptyCache ==
    [dl |-> [n \in DlNames |-> "absent"], tools |-> [t \in ToolNames |-> "absent"],
     locked |-> {}]

\* no recovery-engine function has been called directly yet
NoCall ==
    [op |-> "none", before |-> EmptyCache, zip |-> "none", tool |-> "none",
     raised |-> FALSE, ret |-> FALSE, removed |-> {}, remediation |-> FALSE,
     scanned |-> FALSE, prev |-> "none"]

\* number of entries of a cache
CacheSize(c) ==
    Cardinality({n \in DlNames : c.dl[n] # "absent"})
    + Cardinality({t \in ToolNames : c.tools[t] # "absent"})

\* caches a run can start with: at most MaxCacheFiles entries, tool folders as
\* an earlier run left them, only existing entries locked
InitCaches ==
    {c \in CacheStates :
        /\ CacheSize(c) <= MaxCacheFiles
        /\ \A t \in ToolNames : c.tools[t] \in {"absent", "old"}
        /\ \A n \in c.locked \cap DlNames : c.dl[n] # "absent"
        /\ \A t \in c.locked \cap ToolNames : c.tools[t] # "absent"}

\* sanitize_nsi_for_globs has not been called
NoSanitize ==
    /\ installer_nsi = <<>>
    /\ matching = {}
    /\ temp_nsi = "none"
    /\ changed = FALSE
    /\ again_nsi = "none"
    /\ changed_again = FALSE

\* sys.exit(code) and an uncaught exception leaving main
Exit(code) == pc' = "exited" /\ exitCode' = code
Raise      == pc' = "raised" /\ exitCode' = 1

Say(msgs) == printed' = printed \cup msgs
Event(e)  == events' = Append(events, e)

(***************************************************************************)
(* build_neutron                                                           *)
(***************************************************************************)

\* lines 507-535: reset the flag, create the build directory, resolve cmake,
\* initialize vcpkg on Windows, chdir into the build directory elsewhere.
\* Whether an earlier run left build/CMakeCache.txt is drawn here.
BN_Enter ==
    /\ pc = "bn_enter"
    /\ VCPKG_ISSUE_DETECTED' = FALSE
    /\ attempt' = 0
    /\ \E stale \in BOOLEAN : cmakeCache' = stale
    /\ cwd' = IF os_type = "windows" THEN cwd ELSE "build"
    /\ IF os_type = "windows" /\ ~args.skip_vcpkg
       THEN Event("initialize_vcpkg") ELSE UNCHANGED events
    /\ pc' = "bn_loop"
    /\ UNCHANGED <<envVars, handled, logScans, cache, files, neutron_success, box_success,
                   pathVars, out, printed, exitCode>>
    /\ UNCHANGED unitVars

\* the mutant of the loop guard: one attempt too many
BN_ScanOffByOne ==
    /\ pc = "bn_loop"
    /\ attempt <= max_attempts
    /\ attempt' = attempt + 1
    /\ cache' = _cleanup_vcpkg_downloads(cache).cache
    /\ Event("scan")
    /\ Say({"configure attempt"})
    /\ pc' = "bn_configure"
    /\ UNCHANGED <<envVars, cwd, VCPKG_ISSUE_DETECTED, handled, logScans, cmakeCache, files,
                   neutron_success, box_success, pathVars, out, exitCode>>
    /\ UNCHANGED unitVars

\* the mutant of the pre-clean: the cache is scanned before the first attempt
\* only
BN_ScanFirstOnly ==
    /\ pc = "bn_loop"
    /\ attempt < max_attempts
    /\ attempt' = attempt + 1
    /\ IF attempt = 0
       THEN cache' = _cleanup_vcpkg_downloads(cache).cache /\ Event("scan")
       ELSE UNCHANGED <<cache, events>>
    /\ Say({"configure attempt"})
    /\ pc' = "bn_configure"
    /\ UNCHANGED <<envVars, cwd, VCPKG_ISSUE_DETECTED, handled, logScans, cmakeCache, files,
                   neutron_success, box_success, pathVars, out, exitCode>>
    /\ UNCHANGED unitVars

\* lines 537-542: while attempt < max_attempts: attempt += 1; pre-clean
BN_Scan ==
    /\ pc = "bn_loop"
    /\ attempt < max_attempts
    /\ attempt' = attempt + 1
    /\ cache' = _cleanup_vcpkg_downloads(cache).cache
    /\ Event("scan")
    /\ Say({"configure attempt"})
    /\ pc' = "bn_configure"
    /\ UNCHANGED <<envVars, cwd, VCPKG_ISSUE_DETECTED, handled, logScans, cmakeCache, files,
                   neutron_success, box_success, pathVars, out, exitCode>>
    /\ UNCHANGED unitVars

\* line 537: the loop condition is false
BN_LoopExit ==
    /\ pc = "bn_loop"
    /\ ~(attempt < max_attempts)
    /\ pc' = "bn_after"
    /\ UNCHANGED <<envVars, cwd, buildVars, cache, files, box_success, pathVars,
                   out, printed, events, exitCode>>
    /\ UNCHANGED unitVars

\* lines 543-546 with run_command (83-96): the configure invocation.  A tool that
\* cannot be launched raises past run_command; a non-zero exit returns False.
\* A failing configure may or may not leave CMakeCache.txt behind.  The cache is
\* changed by this process only (spec 5: exclusive access).
BN_Configure ==
    /\ pc = "bn_configure"
    /\ IF LaunchFails(cmakeInstall)
       THEN /\ Event("configure_raise")
            /\ Raise
            /\ UNCHANGED <<cmakeCache>>
       ELSE /\ UNCHANGED exitCode
            /\ \E ok \in BOOLEAN :
                 IF ok
                 THEN /\ Event("configure_ok")
                      /\ cmakeCache' = TRUE
                      /\ pc' = "bn_after"
                 ELSE /\ Event("configure_fail")
                      /\ \E wrote \in BOOLEAN : cmakeCache' = (cmakeCache \/ wrote)
                      /\ pc' = "bn_diagnose"
    /\ UNCHANGED <<envVars, cwd, VCPKG_ISSUE_DETECTED, attempt, handled, logScans, cache, files,
                   neutron_success, box_success, pathVars, out, printed>>
    /\ UNCHANGED unitVars

\* the mutant of the diagnosis step: a failure that was not handled is retried
\* as well, the flag is set only by the remediation branch
BN_DiagnoseRetryNone ==
    /\ pc = "bn_diagnose"
    /\ \E log \in EngineLogs, xfail \in XFail :
         LET r == _handle_vcpkg_manifest_log(log, cache, xfail)
         IN  /\ log.state # "ok" => (log = [NoLog EXCEPT !.state = log.state])
             /\ cache' = r.cache
             /\ handled' = r.ret
             /\ logScans' = IF r.scanned THEN logScans \cup {Len(events) + 1} ELSE logScans
             /\ Event("diag_" \o Diagnosis(r))
             /\ IF r.ret \/ ~r.remediation
                THEN /\ Say({"retrying configure"})
                     /\ pc' = "bn_sleep"
                     /\ UNCHANGED VCPKG_ISSUE_DETECTED
                ELSE /\ Say({"could not auto-fix", "remediation"})
                     /\ VCPKG_ISSUE_DETECTED' = TRUE
                     /\ pc' = "bn_after"
    /\ UNCHANGED <<envVars, cwd, attempt, cmakeCache, files, neutron_success,
                   box_success, pathVars, out, exitCode>>
    /\ UNCHANGED unitVars

\* lines 548-561: DiagnoseLog on the log the failed attempt left; retry when it
\* handled something, otherwise set the flag and leave the loop
BN_Diagnose ==
    /\ pc = "bn_diagnose"
    /\ \E log \in EngineLogs, xfail \in XFail :
         LET r == _handle_vcpkg_manifest_log(log, cache, xfail)
         IN  /\ log.state # "ok" => (log = [NoLog EXCEPT !.state = log.state])
             /\ cache' = r.cache
             /\ handled' = r.ret
             /\ logScans' = IF r.scanned THEN logScans \cup {Len(events) + 1} ELSE logScans
             /\ Event("diag_" \o Diagnosis(r))
             /\ IF r.ret
                THEN /\ Say({"retrying configure"})
                     /\ pc' = "bn_sleep"
                     /\ UNCHANGED VCPKG_ISSUE_DETECTED
                ELSE /\ Say({"could not auto-fix"}
                            \cup IF r.remediation THEN {"remediation"} ELSE {})
                     /\ VCPKG_ISSUE_DETECTED' = TRUE
                     /\ pc' = "bn_after"
    /\ UNCHANGED <<envVars, cwd, attempt, cmakeCache, files, neutron_success,
                   box_success, pathVars, out, exitCode>>
    /\ UNCHANGED unitVars

\* the mutant of the delay step: the retry goes straight to the configure
\* command, without the pre-clean of the cache
BN_SleepSkipScan ==
    /\ pc = "bn_sleep"
    /\ Event("sleep")
    /\ attempt' = attempt + 1
    /\ pc' = IF attempt < max_attempts THEN "bn_configure" ELSE "bn_after"
    /\ UNCHANGED <<envVars, cwd, VCPKG_ISSUE_DETECTED, handled, logScans, cmakeCache,
                   neutron_success, cache, files, box_success, pathVars,
                   out, printed, exitCode>>
    /\ UNCHANGED unitVars

\* lines 554-555: time.sleep(1); continue
BN_Sleep ==
    /\ pc = "bn_sleep"
    /\ Event("sleep")
    /\ pc' = "bn_loop"
    /\ UNCHANGED <<envVars, cwd, buildVars, cache, files, box_success, pathVars,
                   out, printed, exitCode>>
    /\ UNCHANGED unitVars

\* the mutant of the fatal check: it tests the build directory, which exists
\* since line 511, in place of CMakeCache.txt
BN_AfterLoopBuildDir ==
    /\ pc = "bn_after"
    /\ cwd' = IF os_type # "windows" THEN "root" ELSE cwd
    /\ pc' = "bn_build"
    /\ UNCHANGED <<envVars, buildVars, cache, files, box_success, pathVars, out,
                   printed, events, exitCode>>
    /\ UNCHANGED unitVars

\* the mutant of the fatal check: the flag is not consulted, a missing
\* CMakeCache.txt alone is fatal
BN_AfterLoopIgnoreFlag ==
    /\ pc = "bn_after"
    /\ cwd' = IF os_type # "windows" THEN "root" ELSE cwd
    /\ IF ~cmakeCache
       THEN /\ Say({"configure failed after retries"})
            /\ neutron_success' = "False"
            /\ VCPKG_ISSUE_DETECTED' = FALSE
            /\ pc' = "box_enter"
       ELSE /\ UNCHANGED <<printed, neutron_success, VCPKG_ISSUE_DETECTED>>
            /\ pc' = "bn_build"
    /\ UNCHANGED <<envVars, attempt, handled, logScans, cache, cmakeCache,
                   files, box_success, pathVars, out, events, exitCode>>
    /\ UNCHANGED unitVars

\* the mutant of the sequencing: after a fatal build_neutron, build_box is not
\* called
BN_AfterLoopFatalSkipsBox ==
    /\ pc = "bn_after"
    /\ cwd' = IF os_type # "windows" THEN "root" ELSE cwd
    /\ IF ~cmakeCache /\ ~VCPKG_ISSUE_DETECTED
       THEN /\ Say({"configure failed after retries"})
            /\ neutron_success' = "False"
            /\ pc' = "locate"
       ELSE /\ UNCHANGED <<printed, neutron_success>>
            /\ pc' = "bn_build"
    /\ UNCHANGED <<envVars, VCPKG_ISSUE_DETECTED, attempt, handled, logScans, cache, cmakeCache,
                   files, box_success, pathVars, out, events, exitCode>>
    /\ UNCHANGED unitVars

\* lines 563-570: chdir back; fatal when no CMakeCache.txt and the flag is clear
BN_AfterLoop ==
    /\ pc = "bn_after"
    /\ cwd' = IF os_type # "windows" THEN "root" ELSE cwd
    /\ IF ~cmakeCache /\ ~VCPKG_ISSUE_DETECTED
       THEN /\ Say({"configure failed after retries"})
            /\ neutron_success' = "False"
            /\ pc' = "box_enter"
       ELSE /\ UNCHANGED <<printed, neutron_success>>
            /\ pc' = "bn_build"
    /\ UNCHANGED <<envVars, VCPKG_ISSUE_DETECTED, attempt, handled, logScans, cache, cmakeCache,
                   files, box_success, pathVars, out, events, exitCode>>
    /\ UNCHANGED unitVars

\* what a build run can leave: nothing new, or the binary at its output place.
\* The build of the main project builds all its targets, the language server
\* among them (message of line 913, target of line 981), so it can leave the
\* language server next to the interpreter.
BuildResults(b, fs) ==
    {fs, fs \cup {<<b, BuildLoc(os_type)>>}}
    \cup IF b = "neutron"
         THEN {fs \cup {<<"neutron", BuildLoc(os_type)>>, <<"lsp", BuildLoc(os_type)>>}}
         ELSE {}

\* lines 572-593: the build invocation; a failure sets the flag and returns True
BN_Build ==
    /\ pc = "bn_build"
    /\ IF LaunchFails(cmakeInstall)
       THEN /\ Event("build_raise")
            /\ Raise
            /\ UNCHANGED <<VCPKG_ISSUE_DETECTED, neutron_success, files, printed>>
       ELSE /\ UNCHANGED exitCode
            /\ \E ok \in BOOLEAN :
                 /\ \E fs \in BuildResults("neutron", files) : files' = fs
                 /\ IF ok
                    THEN /\ Event("build_ok")
                         /\ UNCHANGED <<VCPKG_ISSUE_DETECTED, printed>>
                    ELSE /\ Event("build_fail")
                         /\ Say({"build failed for Neutron"})
                         /\ VCPKG_ISSUE_DETECTED' = TRUE
                 /\ neutron_success' = "True"
                 /\ pc' = "box_enter"
    /\ UNCHANGED <<envVars, cwd, attempt, handled, logScans, cache, cmakeCache, box_success,
                   pathVars, out>>
    /\ UNCHANGED unitVars

(***************************************************************************)
(* build_box                                                               *)
(***************************************************************************)

\* lines 596-622: initialize vcpkg on Windows; without the nt-box directory
\* return False; otherwise create the build directory and resolve cmake
Box_Enter ==
    /\ pc = "box_enter"
    /\ IF os_type = "windows" /\ ~args.skip_vcpkg
       THEN Event("initialize_vcpkg") ELSE UNCHANGED events
    /\ \E ntbox \in BOOLEAN :
         IF ntbox
         THEN /\ pc' = "box_configure"
              /\ UNCHANGED <<box_success, printed>>
         ELSE /\ Say({"nt-box directory not found"})
              /\ box_success' = "False"
              /\ pc' = "locate"
    /\ UNCHANGED <<envVars, cwd, buildVars, cache, files, pathVars, out, exitCode>>
    /\ UNCHANGED unitVars

\* lines 624-627: one configure invocation; failure returns False
Box_Configure ==
    /\ pc = "box_configure"
    /\ IF LaunchFails(cmakeInstall)
       THEN /\ Event("box_configure_raise")
            /\ Raise
            /\ UNCHANGED <<box_success, printed>>
       ELSE /\ UNCHANGED exitCode
            /\ \E ok \in BOOLEAN :
                 IF ok
                 THEN /\ Event("box_configure_ok")
                      /\ pc' = "box_build"
                      /\ UNCHANGED <<box_success, printed>>
                 ELSE /\ Event("box_configure_fail")
                      /\ Say({"configure failed for Box"})
                      /\ box_success' = "False"
                      /\ pc' = "locate"
    /\ UNCHANGED <<envVars, cwd, buildVars, cache, files, pathVars, out>>
    /\ UNCHANGED unitVars

\* lines 629-643: the build invocation; failure returns False as well
Box_Build ==
    /\ pc = "box_build"
    /\ IF LaunchFails(cmakeInstall)
       THEN /\ Event("box_build_raise")
            /\ Raise
            /\ UNCHANGED <<box_success, files, printed>>
       ELSE /\ UNCHANGED exitCode
            /\ \E ok \in BOOLEAN :
                 /\ \E fs \in BuildResults("box", files) : files' = fs
                 /\ IF ok
                    THEN /\ Event("box_build_ok")
                         /\ box_success' = "True"
                         /\ UNCHANGED printed
                    ELSE /\ Event("box_build_fail")
                         /\ Say({"build failed for Box"})
                         /\ box_success' = "False"
                 /\ pc' = "locate"
    /\ UNCHANGED <<envVars, cwd, buildVars, cache, pathVars, out>>
    /\ UNCHANGED unitVars

\* the build phase: build_neutron, then build_box (lines 923-924)
NextBuild ==
    \/ BN_Enter
    \/ BN_Scan
    \/ BN_LoopExit
    \/ BN_Configure
    \/ BN_Diagnose
    \/ BN_Sleep
    \/ BN_AfterLoop
    \/ BN_Build
    \/ Box_Enter
    \/ Box_Configure
    \/ Box_Build

\* the build phase on its own: build_neutron called with every supported OS
InitBuild ==
    /\ pc = "bn_enter"
    /\ args \in [mode : {"package"}, installer : {FALSE}, skip_vcpkg : BOOLEAN]
    /\ cmakeInstall \in CmakeInstalls
    /\ os_type \in {"macos", "linux", "windows"}
    \* the known locations are Visual Studio directories (lines 141-146)
    /\ cmakeInstall = "known" => os_type = "windows"
    /\ host \in {h \in Hosts : LET r == get_os_info(h[1], h[2])
                               IN  ~r.exit /\ r.os = os_type}
    /\ arch_type = "x64"
    /\ cwd = "root"
    /\ VCPKG_ISSUE_DETECTED = FALSE
    /\ attempt = 0
    /\ handled = FALSE
    /\ logScans = {}
    /\ cache \in InitCaches
    /\ cmakeCache = FALSE
    /\ files = {}
    /\ neutron_success = "unset"
    /\ box_success = "unset"
    /\ real_neutron_path = "None"
    /\ real_box_path = "None"
    /\ real_lsp_path = "None"
    /\ out = {}
    /\ printed = {}
    /\ events = <<>>
    /\ exitCode = "running"
    /\ call = NoCall
    /\ manifestLog = NoLog
    /\ fault = "none"
    /\ NoSanitize

SpecBuild == InitBuild /\ [][NextBuild]_vars

(***************************************************************************)
(* The dependency recovery engine on its own                               *)
(*                                                                         *)
(* _cleanup_vcpkg_downloads, _handle_vcpkg_manifest_log and                *)
(* _manual_extract_zip called directly, in any order, on any cache, with   *)
(* a log in the build directory and one filesystem operation that fails.   *)
(* call records the call made last.  The build-phase specification above   *)
(* takes the downloads directory and its tools folder to be listable.      *)
(***************************************************************************)

\* the filesystem operation that fails during a call: none, the extraction or
\* the move of _manual_extract_zip, os.listdir of the downloads directory
\* (line 209) or of its tools folder (line 353).  Removals fail for the locked
\* paths of the cache; an unreadable log is a state of the log.
Faults == XFail \cup {"list_downloads", "list_tools"}

\* line 209 is outside every try block: os.listdir raising leaves
\* _cleanup_vcpkg_downloads
CleanupRaises(f) == f = "list_downloads"

\* _handle_vcpkg_manifest_log raises when os.listdir of line 353 raises (the log
\* names 7zip) or when the cleanup pass of line 375 raises; the listing of line
\* 384 is inside a try block
HandleLogRaises(log, f) ==
    /\ log.state = "ok"
    /\ \/ f = "list_tools" /\ "7zip" \in log.words
       \/ f = "list_downloads" /\ ~PwshFailure(log)

\* the cache when _handle_vcpkg_manifest_log raises: the deletions made before
\* the failing os.listdir stay
CacheAtRaise(log, c, f) ==
    IF f = "list_tools"
    THEN [c EXCEPT !.dl = [n \in DlNames |->
                              IF n \in LogRemoved(log, c) THEN "absent" ELSE c.dl[n]]]
    ELSE AfterDeletions(log, c)

\* what the next call remembers of this one
PrevOf(op, raised, removed) ==
    IF op = "scan" /\ ~raised
    THEN IF removed # {} THEN "scan_removed" ELSE "scan"
    ELSE "other"

\* what the engine called on its own leaves alone
engineFrame ==
    <<envVars, cwd, buildVars, files, box_success, pathVars, out, printed, events,
      exitCode, pc, manifestLog, fault, nsiVars>>

\* removed = _cleanup_vcpkg_downloads(root_dir)
Engine_Scan ==
    /\ pc = "engine"
    /\ LET r == _cleanup_vcpkg_downloads(cache)
           raised == CleanupRaises(fault)
       IN  /\ cache' = IF raised THEN cache ELSE r.cache
           /\ call' = [op |-> "scan", before |-> cache, zip |-> "none",
                       tool |-> "none", raised |-> raised,
                       ret |-> ~raised /\ r.removed # {},
                       removed |-> IF raised THEN {} ELSE r.removed,
                       remediation |-> FALSE, scanned |-> TRUE,
                       prev |-> PrevOf(call.op, call.raised, call.removed)]
    /\ UNCHANGED engineFrame

\* handled = _handle_vcpkg_manifest_log(build_dir, root_dir)
Engine_Diagnose ==
    /\ pc = "engine"
    /\ LET xfail == IF fault \in XFail THEN fault ELSE "none"
           r == _handle_vcpkg_manifest_log(manifestLog, cache, xfail)
           raised == HandleLogRaises(manifestLog, fault)
       IN  /\ cache' = IF raised THEN CacheAtRaise(manifestLog, cache, fault)
                       ELSE r.cache
           /\ call' = [op |-> "diagnose", before |-> cache, zip |-> "none",
                       tool |-> "none", raised |-> raised,
                       ret |-> ~raised /\ r.ret,
                       removed |-> IF raised THEN {} ELSE r.deleted,
                       remediation |-> ~raised /\ r.remediation,
                       scanned |-> IF raised THEN fault = "list_downloads"
                                   ELSE r.scanned,
                       prev |-> PrevOf(call.op, call.raised, call.removed)]
    /\ UNCHANGED engineFrame

\* _manual_extract_zip(zip_path, target_dir) on an archive of the downloads
\* directory and a tool folder
Engine_Extract ==
    /\ pc = "engine"
    /\ \E n \in {z \in DlNames : IsZipName(z)}, t \in ToolNames :
         LET xfail == IF fault \in XFail THEN fault ELSE "none"
             r == _manual_extract_zip(cache.dl[n], cache.tools[t], t \in cache.locked, xfail)
         IN  /\ cache' = [cache EXCEPT !.tools[t] = r.tool]
             /\ call' = [op |-> "extract", before |-> cache, zip |-> n, tool |-> t,
                         raised |-> FALSE, ret |-> r.ok, removed |-> {},
                         remediation |-> FALSE, scanned |-> FALSE,
                         prev |-> PrevOf(call.op, call.raised, call.removed)]
    /\ UNCHANGED engineFrame

NextEngine ==
    \/ Engine_Scan
    \/ Engine_Diagnose
    \/ Engine_Extract

\* the cache the manual extraction is written for: a PowerShell archive next to
\* the tool folder an earlier extraction of it left, removable or in use
ExtractedCaches ==
    {[EmptyCache EXCEPT !.dl[z] = "valid", !.tools[ToolNameFor(z)] = "old",
                        !.locked = l] :
        z \in {n \in DlNames : IsPowerShellZip(n)},
        l \in {{}, {"PowerShell-7.5.4-win"}}}

\* the engine on any cache a run can start with, any log and any failing
\* filesystem operation
InitEngine ==
    /\ pc = "engine"
    /\ args = [mode |-> "package", installer |-> FALSE, skip_vcpkg |-> FALSE]
    /\ cmakeInstall = "path"
    /\ host = <<"windows", "amd64">>
    /\ os_type = "windows"
    /\ arch_type = "x64"
    /\ cwd = "root"
    /\ VCPKG_ISSUE_DETECTED = FALSE
    /\ attempt = 0
    /\ handled = FALSE
    /\ logScans = {}
    /\ cache \in InitCaches \cup ExtractedCaches
    /\ cmakeCache = FALSE
    /\ files = {}
    /\ neutron_success = "unset"
    /\ box_success = "unset"
    /\ real_neutron_path = "None"
    /\ real_box_path = "None"
    /\ real_lsp_path = "None"
    /\ out = {}
    /\ printed = {}
    /\ events = <<>>
    /\ exitCode = "running"
    /\ call = NoCall
    /\ manifestLog \in EngineLogs
    /\ fault \in Faults
    /\ NoSanitize

SpecEngine == InitEngine /\ [][NextEngine]_vars

(***************************************************************************)
(* main                                                                    *)
(***************************************************************************)

\* lines 841-857: --clean and --check-deps run and exit; check_dependencies
\* itself exits 1 when a dependency is missing (line 834)
Start ==
    /\ pc = "start"
    /\ IF args.mode = "clean" THEN Exit(0) /\ UNCHANGED printed
       ELSE IF args.mode = "check_deps"
       THEN \E missing \in BOOLEAN :
              IF missing THEN Exit(1) /\ Say({"dependencies missing"})
              ELSE Exit(0) /\ UNCHANGED printed
       ELSE pc' = "os_info" /\ UNCHANGED <<exitCode, printed>>
    /\ UNCHANGED <<envVars, cwd, buildVars, cache, files, box_success, pathVars,
                   out, events>>
    /\ UNCHANGED unitVars

\* lines 859-860: get_os_info() on the host
GetOsInfo ==
    /\ pc = "os_info"
    /\ LET r == get_os_info(host[1], host[2])
       IN  /\ os_type' = r.os
           /\ arch_type' = r.arch
           /\ IF r.exit THEN Exit(1) /\ Say({"unsupported platform"})
              ELSE pc' = "prelocate" /\ UNCHANGED <<exitCode, printed>>
    /\ UNCHANGED <<host, args, cmakeInstall, cwd, buildVars, cache, files, box_success,
                   pathVars, out, events>>
    /\ UNCHANGED unitVars

\* lines 891-910: the binaries found before the build
PreLocate ==
    /\ pc = "prelocate"
    /\ real_neutron_path' = FirstExisting(bin_paths, "neutron", files)
    /\ real_box_path' = FirstExisting(bin_paths, "box", files)
    /\ real_lsp_path' = FirstExisting(bin_paths, "lsp", files)
    /\ pc' = "preflight"
    /\ UNCHANGED <<envVars, cwd, buildVars, cache, files, box_success, out, printed,
                   events, exitCode>>
    /\ UNCHANGED unitVars

\* lines 915-920: preflight_check_windows(); a failed check exits 1
Preflight ==
    /\ pc = "preflight"
    /\ IF os_type = "windows" /\ ~args.skip_vcpkg
       THEN \E ok \in BOOLEAN :
              IF ok THEN pc' = "bn_enter" /\ UNCHANGED <<exitCode, printed>>
              ELSE Exit(1) /\ Say({"preflight checks failed"})
       ELSE pc' = "bn_enter" /\ UNCHANGED <<exitCode, printed>>
    /\ UNCHANGED <<envVars, cwd, buildVars, cache, files, box_success, pathVars,
                   out, events>>
    /\ UNCHANGED unitVars

\* lines 926-972: the artifact locator for the interpreter and the package manager
Locate ==
    /\ pc = "locate"
    /\ real_neutron_path' = LocateAfterBuild("neutron", files)
    /\ real_box_path' = LocateAfterBuild("box", files)
    /\ pc' = "lsp"
    /\ UNCHANGED <<envVars, cwd, buildVars, cache, files, box_success, real_lsp_path,
                   out, printed, events, exitCode>>
    /\ UNCHANGED unitVars

\* lines 974-986: build the language server when it was not found before the
\* build, and look for it again (subprocess.call raises when cmake cannot be
\* launched)
LspBuild ==
    /\ pc = "lsp"
    /\ IF real_lsp_path # "None"
       THEN /\ pc' = "check"
            /\ UNCHANGED <<files, real_lsp_path, events, exitCode>>
       ELSE IF LaunchFails(cmakeInstall)
       THEN /\ Event("lsp_build_raise")
            /\ Raise
            /\ UNCHANGED <<files, real_lsp_path>>
       ELSE /\ Event("lsp_build")
            /\ \E fs \in BuildResults("lsp", files) :
                 /\ files' = fs
                 /\ real_lsp_path' = FirstExisting(bin_paths, "lsp", fs)
            /\ pc' = "check"
            /\ UNCHANGED exitCode
    /\ UNCHANGED <<envVars, cwd, buildVars, cache, box_success, real_neutron_path,
                   real_box_path, out, printed>>
    /\ UNCHANGED unitVars

\* the mutant of the binaries check: exit when either binary is missing
CheckBinariesEither ==
    /\ pc = "check"
    /\ IF real_neutron_path = "None" \/ real_box_path = "None"
       THEN Exit(1) /\ Say({"could not locate any binaries"})
       ELSE /\ pc' = "verify"
            /\ UNCHANGED exitCode
            /\ Say(IF real_lsp_path = "None" THEN {"warning: lsp not found"} ELSE {})
    /\ UNCHANGED <<envVars, cwd, buildVars, cache, files, box_success, pathVars, out,
                   events>>
    /\ UNCHANGED unitVars

\* lines 988-999: exit 1 when neither binary was located; warn for each missing
CheckBinaries ==
    /\ pc = "check"
    /\ IF real_neutron_path = "None" /\ real_box_path = "None"
       THEN Exit(1) /\ Say({"could not locate any binaries"})
       ELSE /\ pc' = "verify"
            /\ UNCHANGED exitCode
            /\ Say((IF real_neutron_path = "None"
                      THEN {"warning: neutron not found"} ELSE {})
                   \cup (IF real_box_path = "None"
                           THEN {"warning: box not found"} ELSE {})
                   \cup (IF real_lsp_path = "None"
                           THEN {"warning: lsp not found"} ELSE {}))
    /\ UNCHANGED <<envVars, cwd, buildVars, cache, files, box_success, pathVars, out,
                   events>>
    /\ UNCHANGED unitVars

\* outcomes of a smoke-test invocation (check_output with timeout=10)
VerifyResults == {"ok", "nonzero", "timeout", "launch_error"}

\* the mutant of the smoke tests: a failed smoke test ends the process
VerifyExitsOnFailure ==
    /\ pc = "verify"
    /\ \E rn \in VerifyResults, rb \in VerifyResults :
         LET msgs == (IF real_neutron_path # "None" /\ rn # "ok"
                        THEN {"neutron failed verification: " \o rn} ELSE {})
                     \cup (IF real_box_path # "None" /\ rb # "ok"
                             THEN {"box failed verification: " \o rb} ELSE {})
         IN  /\ Say(msgs)
             /\ IF msgs # {} THEN Exit(1)
                ELSE pc' = "assemble" /\ UNCHANGED exitCode
    /\ UNCHANGED <<envVars, cwd, buildVars, cache, files, box_success, pathVars, out,
                   events>>
    /\ UNCHANGED unitVars

\* lines 1001-1014: the smoke tests; every failure is caught and printed
Verify ==
    /\ pc = "verify"
    /\ \E rn \in VerifyResults, rb \in VerifyResults :
         Say((IF real_neutron_path # "None" /\ rn # "ok"
                THEN {"neutron failed verification: " \o rn} ELSE {})
             \cup (IF real_box_path # "None" /\ rb # "ok"
                     THEN {"box failed verification: " \o rb} ELSE {}))
    /\ pc' = "assemble"
    /\ UNCHANGED <<envVars, cwd, buildVars, cache, files, box_success, pathVars, out,
                   events, exitCode>>
    /\ UNCHANGED unitVars

\* the mutant of the assembly: the package manager is copied only next to the
\* interpreter
AssembleBoxWithNeutron ==
    /\ pc = "assemble"
    /\ out' = {b \in Binaries :
                 \/ b = "neutron" /\ real_neutron_path # "None"
                 \/ b = "box" /\ real_box_path # "None" /\ real_neutron_path # "None"
                 \/ b = "lsp" /\ real_lsp_path # "None"}
    /\ Say((IF real_neutron_path = "None" THEN {"skipping copy of neutron"} ELSE {})
           \cup (IF real_box_path = "None" THEN {"skipping copy of box"} ELSE {}))
    /\ pc' = "version"
    /\ UNCHANGED <<envVars, cwd, buildVars, cache, files, box_success, pathVars,
                   events, exitCode>>
    /\ UNCHANGED unitVars

\* lines 1016-1157: the output directory is recreated and every located binary
\* copied into it; libraries, assets and the editor extension follow and leave
\* the binaries of the output directory alone
Assemble ==
    /\ pc = "assemble"
    /\ out' = {b \in Binaries :
                 \/ b = "neutron" /\ real_neutron_path # "None"
                                  /\ <<b, real_neutron_path>> \in files
                 \/ b = "box" /\ real_box_path # "None" /\ <<b, real_box_path>> \in files
                 \/ b = "lsp" /\ real_lsp_path # "None" /\ <<b, real_lsp_path>> \in files}
    /\ Say((IF real_neutron_path = "None" THEN {"skipping copy of neutron"} ELSE {})
           \cup (IF real_box_path = "None" THEN {"skipping copy of box"} ELSE {}))
    /\ pc' = "version"
    /\ UNCHANGED <<envVars, cwd, buildVars, cache, files, box_success, pathVars,
                   events, exitCode>>
    /\ UNCHANGED unitVars

\* lines 1159-1174: the version query, check_output([real_neutron_path,
\* "--version"]) without a timeout.  Every way of returning is caught; a binary
\* that does not return (its smoke test timed out) blocks main in this call.
VersionQuery ==
    /\ pc = "version"
    /\ IF real_neutron_path # "None"
       THEN \E returns \in BOOLEAN :
              /\ ~returns => "neutron failed verification: timeout" \in printed
              /\ pc' = IF returns THEN "installer" ELSE "version_blocked"
       ELSE pc' = "installer"
    /\ UNCHANGED <<envVars, cwd, buildVars, cache, files, box_success, pathVars, out,
                   printed, events, exitCode>>
    /\ UNCHANGED unitVars

\* lines 1181-1294: the optional NSIS installer (Windows with --installer), then
\* the end of main
Installer ==
    /\ pc = "installer"
    /\ IF args.installer /\ os_type = "windows"
       THEN \E makensis \in BOOLEAN, nsi \in BOOLEAN, result \in {0, 1},
               exe \in BOOLEAN :
              IF ~makensis THEN Exit(1) /\ Say({"makensis not found"})
              ELSE IF ~nsi THEN Exit(1) /\ Say({"installer.nsi not found"})
              ELSE IF result # 0 THEN Exit(1) /\ Say({"NSIS failed"})
              ELSE IF ~exe THEN Exit(1) /\ Say({"NeutronInstaller.exe not found"})
              ELSE /\ pc' = "done"
                   /\ exitCode' = 0
                   /\ Say({"installer created", "packaging completed"})
       ELSE /\ pc' = "done"
            /\ exitCode' = 0
            /\ Say({"packaging completed"})
    /\ UNCHANGED <<envVars, cwd, buildVars, cache, files, box_success, pathVars, out,
                   events>>
    /\ UNCHANGED unitVars

Next ==
    \/ Start
    \/ GetOsInfo
    \/ PreLocate
    \/ Preflight
    \/ NextBuild
    \/ Locate
    \/ LspBuild
    \/ CheckBinaries
    \/ Verify
    \/ Assemble
    \/ VersionQuery
    \/ Installer

\* bound: binaries an earlier run may have left behind
MaxStale == 1

\* places where an earlier run may have left a binary
StaleFiles ==
    {fs \in SUBSET (Binaries \X {"Debug"}) : Cardinality(fs) <= MaxStale}

\* caches main starts with: empty, or holding a valid PowerShell download
MainCaches ==
    {c \in InitCaches :
        /\ c.locked = {}
        /\ \A n \in DlNames : c.dl[n] = "absent" \/ (c.dl[n] = "valid" /\ IsPowerShellZip(n))
        /\ \A t \in ToolNames : c.tools[t] = "absent"}

\* hosts main is run on as a whole: main treats macOS as it treats Linux (line
\* 1124), and each way get_os_info can end is run under SpecHost
MainHosts ==
    {<<"linux", "x86_64">>, <<"linux", "riscv64">>, <<"windows", "amd64">>,
     <<"freebsd", "amd64">>}

\* cmake installations main is run with
MainCmakeInstalls == {"path", "none"}

Init ==
    /\ pc = "start"
    /\ args \in [mode : Modes, installer : BOOLEAN, skip_vcpkg : BOOLEAN]
    /\ cmakeInstall \in MainCmakeInstalls
    /\ host \in MainHosts
    /\ os_type = "unknown"
    /\ arch_type = "unknown"
    /\ cwd = "root"
    /\ VCPKG_ISSUE_DETECTED = FALSE
    /\ attempt = 0
    /\ handled = FALSE
    /\ logScans = {}
    /\ cache \in MainCaches
    /\ cmakeCache = FALSE
    /\ files \in StaleFiles
    /\ neutron_success = "unset"
    /\ box_success = "unset"
    /\ real_neutron_path = "None"
    /\ real_box_path = "None"
    /\ real_lsp_path = "None"
    /\ out = {}
    /\ printed = {}
    /\ events = <<>>
    /\ exitCode = "running"
    /\ call = NoCall
    /\ manifestLog = NoLog
    /\ fault = "none"
    /\ NoSanitize

Spec == Init /\ [][Next]_vars

(***************************************************************************)
(* main with its steps taken                                               *)
(***************************************************************************)

\* main is sequential and every call it makes blocks it: a step that can be
\* taken is taken, as long as the tool it waits for returns
SpecLive == Init /\ [][Next]_vars /\ WF_vars(Next)

(***************************************************************************)
(* The artifact locator on its own                                         *)
(***************************************************************************)

\* the locator and the steps after it up to the binaries check
NextLocate ==
    \/ Locate
    \/ LspBuild
    \/ CheckBinaries

\* main after the build phase, with the interpreter and the package manager at
\* any of the places the locator looks at
InitLocate ==
    /\ pc = "locate"
    /\ args = [mode |-> "package", installer |-> FALSE, skip_vcpkg |-> FALSE]
    /\ cmakeInstall = "path"
    /\ host = <<"linux", "x86_64">>
    /\ os_type = "linux"
    /\ arch_type = "x64"
    /\ cwd = "root"
    /\ VCPKG_ISSUE_DETECTED = FALSE
    /\ attempt = 1
    /\ handled = FALSE
    /\ logScans = {}
    /\ cache = EmptyCache
    /\ cmakeCache = TRUE
    /\ files \in SUBSET ({"neutron", "box"} \X Locs)
    /\ neutron_success = "True"
    /\ box_success = "True"
    /\ real_neutron_path = "None"
    /\ real_box_path = "None"
    /\ real_lsp_path = "None"
    /\ out = {}
    /\ printed = {}
    /\ events = <<>>
    /\ exitCode = "running"
    /\ call = NoCall
    /\ manifestLog = NoLog
    /\ fault = "none"
    /\ NoSanitize

SpecLocate == InitLocate /\ [][NextLocate]_vars

(***************************************************************************)
(* sanitize_nsi_for_globs on its own                                       *)
(***************************************************************************)

\* bound: number of lines of installer.nsi
MaxLines == 2

\* what a line starts with after its leading blanks
NsiHeads == {"File", "file /r", "FileOpen", "; File", "SetOutPath"}

\* the text between the first pair of double quotes of a line
NsiTexts == {"neutron.exe", "out\\*.pdb", "*.dll"}

\* '*' occurs in the text
HasStar(t) == t \in {"out\\*.pdb", "*.dll"}

\* a line of the script: its head, the text of its first argument, and whether
\* that argument stands in double quotes
NsiLines == [head : NsiHeads, text : NsiTexts, quoted : BOOLEAN]

\* the mutant of the pattern: the quoted text need not hold a '*'
PatternMatchAnyText(line) ==
    /\ line.head \in {"File", "file /r"}
    /\ line.quoted

\* the mutant of the pattern: the pattern is searched for in the line, not
\* matched at its start, so a File directive behind a comment mark matches
PatternSearch(line) ==
    /\ line.head \in {"File", "file /r", "; File", "; file /r"}
    /\ line.quoted
    /\ HasStar(line.text)

\* pattern.match(line) for ^(\s*File\b[^"]*"([^"]*\*[^"]*)".*)$ with IGNORECASE:
\* the word File in either case at the start, and a first quoted string that
\* holds a '*'
PatternMatch(line) ==
    /\ line.head \in {"File", "file /r"}
    /\ line.quoted
    /\ HasStar(line.text)

\* '; ' + line
Commented(line) == [prefix |-> "; ", line |-> line]
\* the line as it is
Copied(line) == [prefix |-> "", line |-> line]

\* lines 181-195: the loop over the lines; glob.glob(candidate) is empty when
\* the text is not among the patterns that match a file
RECURSIVE SanitizeLines(_, _)
SanitizeLines(lines, globs) ==
    IF lines = <<>> THEN <<>>
    ELSE LET line == Head(lines)
         IN  IF PatternMatch(line) /\ line.text \notin globs
             THEN <<Commented(line)>> \o SanitizeLines(Tail(lines), globs)
             ELSE <<Copied(line)>> \o SanitizeLines(Tail(lines), globs)

\* sanitize_nsi_for_globs(src_nsi, dst_nsi, root_dir): the lines written to
\* dst_nsi and the returned flag
sanitize_nsi_for_globs(lines, globs) ==
    LET out_lines == SanitizeLines(lines, globs)
    IN  [out_lines |-> out_lines,
         changed   |-> \E i \in DOMAIN out_lines : out_lines[i].prefix = "; "]

\* what the sanitizer called on its own leaves alone
sanitizeFrame ==
    <<envVars, cwd, buildVars, cache, files, box_success, pathVars, out, events,
      exitCode, call, manifestLog, fault, installer_nsi, matching>>

\* line 1271: changed = sanitize_nsi_for_globs("installer.nsi", temp_nsi, root_dir)
Sanitize ==
    /\ pc = "sanitize"
    /\ LET r == sanitize_nsi_for_globs(installer_nsi, matching)
       IN  /\ temp_nsi' = r.out_lines
           /\ changed' = r.changed
    /\ pc' = "choose_nsi"
    /\ UNCHANGED <<printed, again_nsi, changed_again>>
    /\ UNCHANGED sanitizeFrame

\* lines 1272-1274: nsi_to_use = temp_nsi if changed else "installer.nsi"
ChooseNsi ==
    /\ pc = "choose_nsi"
    /\ Say({IF changed THEN "running NSIS on installer.temp.nsi"
                       ELSE "running NSIS on installer.nsi"})
    /\ pc' = "makensis"
    /\ UNCHANGED <<temp_nsi, changed, again_nsi, changed_again>>
    /\ UNCHANGED sanitizeFrame

\* f.writelines(out_lines), then f.readlines() of the next call: a line written
\* with the prefix '; ' is read back as a line that starts with "; "
ReadBack(o) ==
    IF o.prefix = "" THEN o.line
    ELSE [o.line EXCEPT !.head = o.prefix \o o.line.head]

\* sanitize_nsi_for_globs(temp_nsi, dst_nsi, root_dir): the function applied to
\* the script it wrote, with the files as they were
Resanitize ==
    /\ pc \in {"choose_nsi", "makensis"}
    /\ again_nsi = "none"
    /\ LET lines == [i \in DOMAIN temp_nsi |-> ReadBack(temp_nsi[i])]
           r == sanitize_nsi_for_globs(lines, matching)
       IN  /\ again_nsi' = r.out_lines
           /\ changed_again' = r.changed
    /\ UNCHANGED <<pc, printed, temp_nsi, changed>>
    /\ UNCHANGED sanitizeFrame

NextSanitize ==
    \/ Sanitize
    \/ ChooseNsi
    \/ Resanitize

\* the installer step at the sanitizer, with any script of at most MaxLines
\* lines and any set of patterns that match a file
InitSanitize ==
    /\ pc = "sanitize"
    /\ args = [mode |-> "package", installer |-> TRUE, skip_vcpkg |-> FALSE]
    /\ cmakeInstall = "path"
    /\ host = <<"windows", "amd64">>
    /\ os_type = "windows"
    /\ arch_type = "x64"
    /\ cwd = "root"
    /\ VCPKG_ISSUE_DETECTED = FALSE
    /\ attempt = 1
    /\ handled = FALSE
    /\ logScans = {}
    /\ cache = EmptyCache
    /\ cmakeCache = TRUE
    /\ files = {}
    /\ neutron_success = "True"
    /\ box_success = "True"
    /\ real_neutron_path = "None"
    /\ real_box_path = "None"
    /\ real_lsp_path = "None"
    /\ out = {}
    /\ printed = {}
    /\ events = <<>>
    /\ exitCode = "running"
    /\ call = NoCall
    /\ manifestLog = NoLog
    /\ fault = "none"
    /\ installer_nsi \in UNION {[1..n -> NsiLines] : n \in 0..MaxLines}
    /\ matching \in SUBSET NsiTexts
    /\ temp_nsi = "none"
    /\ changed = FALSE
    /\ again_nsi = "none"
    /\ changed_again = FALSE

SpecSanitize == InitSanitize /\ [][NextSanitize]_vars

(***************************************************************************)
(* Host detection on its own                                               *)
(***************************************************************************)

\* main up to the first search for binaries
NextHost ==
    \/ Start
    \/ GetOsInfo
    \/ PreLocate

\* main started on any host
InitHost ==
    /\ pc = "start"
    /\ host \in AllHosts
    /\ args \in [mode : Modes, installer : BOOLEAN, skip_vcpkg : BOOLEAN]
    /\ cmakeInstall = "path"
    /\ os_type = "unknown"
    /\ arch_type = "unknown"
    /\ cwd = "root"
    /\ VCPKG_ISSUE_DETECTED = FALSE
    /\ attempt = 0
    /\ handled = FALSE
    /\ logScans = {}
    /\ cache = EmptyCache
    /\ cmakeCache = FALSE
    /\ files = {}
    /\ neutron_success = "unset"
    /\ box_success = "unset"
    /\ real_neutron_path = "None"
    /\ real_box_path = "None"
    /\ real_lsp_path = "None"
    /\ out = {}
    /\ printed = {}
    /\ events = <<>>
    /\ exitCode = "running"
    /\ call = NoCall
    /\ manifestLog = NoLog
    /\ fault = "none"
    /\ NoSanitize

SpecHost == InitHost /\ [][NextHost]_vars

(***************************************************************************)
(* Vocabulary of the properties                                            *)
(***************************************************************************)

\* number of entries of a sequence that lie in a set
Count(seq, S) == Cardinality({i \in DOMAIN seq : seq[i] \in S})

ConfigureEvents == {"configure_ok", "configure_fail", "configure_raise"}
BoxConfigureEvents == {"box_configure_ok", "box_configure_fail", "box_configure_raise"}

\* configure invocations of build_neutron / build_box so far
ConfigureCount == Count(events, ConfigureEvents)
BoxConfigureCount == Count(events, BoxConfigureEvents)

\* build_neutron has returned, and the terminal state it returned in
BN_Returned == neutron_success \in {"True", "False"}
BN_Built    == neutron_success = "True" /\ ~VCPKG_ISSUE_DETECTED
BN_Degraded == neutron_success = "True" /\ VCPKG_ISSUE_DETECTED
BN_Fatal    == neutron_success = "False" /\ ~VCPKG_ISSUE_DETECTED

\* an exception left build_neutron uncaught
BN_Raised == pc = "raised" /\ neutron_success = "unset" /\ box_success = "unset"
                /\ \E i \in DOMAIN events : events[i] \in {"configure_raise", "build_raise"}

\* the process has terminated
Terminated == pc \in {"done", "exited", "raised"}

\* no configure invocation of build_neutron after position i of events
NoConfigureAfter(i) ==
    \A j \in DOMAIN events : j > i => events[j] \notin ConfigureEvents \cup {"scan", "sleep"}

(***************************************************************************)
(* C1                                                                      *)
(***************************************************************************)

\* C1: in every run of build_neutron and of build_box the configure command is
\* invoked at most max_attempts times before the routine leaves the configuring
\* phase (build_box invokes it once)
C1_ConfigureBounded ==
    /\ ConfigureCount <= max_attempts
    /\ attempt <= max_attempts
    /\ BoxConfigureCount <= 1
    /\ pc \in {"bn_after", "bn_build"} \/ BN_Returned =>
          /\ ConfigureCount = attempt
          /\ ConfigureCount >= 1

\* the ceiling is reached: three configure invocations, all failed, loop left
C1_Witness ==
    /\ pc = "bn_after"
    /\ ConfigureCount = max_attempts
    /\ Count(events, {"configure_fail"}) = max_attempts

(***************************************************************************)
(* C2                                                                      *)
(***************************************************************************)

\* C2: every execution of build_neutron ends in exactly one of the terminal
\* states CONFIGURED_AND_BUILT, DEGRADED, FATAL; never False with the flag set,
\* never an uncaught error from inside the routine
C2_ThreeTerminalStates ==
    /\ BN_Returned => (BN_Built \/ BN_Degraded \/ BN_Fatal)
    /\ ~BN_Raised

(***************************************************************************)
(* C3                                                                      *)
(***************************************************************************)

\* C3: for build_neutron and build_box, a configure attempt that succeeds
\* followed by a failing build command ends in DEGRADED (the can-continue
\* result), never in the failure result
C3_BuildFailureDegraded ==
    /\ (\E i \in DOMAIN events : events[i] = "build_fail") /\
       (\E i \in DOMAIN events : events[i] = "configure_ok") /\ BN_Returned
          => BN_Degraded
    /\ (\E i \in DOMAIN events : events[i] = "box_build_fail") /\ box_success # "unset"
          => box_success = "True"

(***************************************************************************)
(* C4                                                                      *)
(***************************************************************************)

\* every configure attempt so far failed with a non-zero exit
AllConfigureFailed ==
    /\ ConfigureCount >= 1
    /\ \A i \in DOMAIN events : events[i] \in ConfigureEvents => events[i] = "configure_fail"

\* C4 as stated: every configure attempt fails, no CMakeCache.txt exists and no
\* recovery applies to any failure => build_neutron returns False
C4_Original ==
    /\ BN_Returned
    /\ AllConfigureFailed
    /\ ~cmakeCache
    /\ Count(events, {"diag_RETRY"}) = 0
    => BN_Fatal

\* C4 amended: build_neutron ends in FATAL when each of the max_attempts
\* configure attempts fails, DiagnoseLog reports RETRY after each of them and
\* no CMakeCache.txt exists; when DiagnoseLog finds no log or nothing to fix it
\* ends in DEGRADED, not in FATAL
C4_FatalAfterRetries ==
    /\ BN_Returned /\ ~cmakeCache /\ Count(events, {"diag_RETRY"}) = max_attempts
          => BN_Fatal
    /\ BN_Returned /\ Count(events, {"diag_NONE", "diag_UNRECOVERABLE"}) > 0
          => BN_Degraded

\* three failed attempts, each followed by a RETRY diagnosis, no CMakeCache.txt
C4_Witness ==
    /\ BN_Fatal
    /\ ~cmakeCache
    /\ Count(events, {"configure_fail"}) = max_attempts
    /\ Count(events, {"diag_RETRY"}) = max_attempts

(***************************************************************************)
(* C5                                                                      *)
(***************************************************************************)

\* C5: whenever build_neutron or build_box returns False, the process exits
\* with a non-zero status
C5_FatalExitsNonZero ==
    Terminated /\ (neutron_success = "False" \/ box_success = "False")
        => exitCode = 1

(***************************************************************************)
(* C6                                                                      *)
(***************************************************************************)

\* the artifact locator (lines 930-972) has run
LocateDone ==
    \/ pc \in {"lsp", "check", "verify", "assemble", "version", "version_blocked",
              "installer", "done"}
    \/ pc \in {"exited", "raised"} /\ box_success # "unset"

\* the reasons for which main ends with a non-zero status
UnsupportedPlatform ==
    args.mode = "package" /\ pc = "exited" /\ (os_type = "unknown" \/ arch_type = "unknown")
NoBinariesLocated ==
    LocateDone /\ real_neutron_path = "None" /\ real_box_path = "None"
DepsMissing == args.mode = "check_deps" /\ "dependencies missing" \in printed
PreflightFailed ==
    os_type = "windows" /\ ~args.skip_vcpkg /\ "preflight checks failed" \in printed
InstallerFailed ==
    /\ args.installer /\ os_type = "windows"
    /\ printed \cap {"makensis not found", "installer.nsi not found", "NSIS failed",
                     "NeutronInstaller.exe not found"} # {}
UncaughtError == pc = "raised"

\* C6 as stated: main ends with a non-zero status only when the platform is
\* unsupported or when neither binary is located after the full pipeline
C6_Original ==
    Terminated /\ exitCode = 1 => UnsupportedPlatform \/ NoBinariesLocated

\* C6 amended: main ends with a non-zero status exactly when the platform is
\* unsupported, --check-deps finds a dependency missing, the Windows preflight
\* check fails, neither binary is located, the installer asked for on Windows
\* cannot be generated, or an exception leaves main uncaught; every other run
\* that terminates ends with status zero
C6_NonZeroExits ==
    Terminated =>
        /\ exitCode \in {0, 1}
        /\ exitCode = 1 <=>
              \/ UnsupportedPlatform
              \/ DepsMissing
              \/ PreflightFailed
              \/ NoBinariesLocated
              \/ InstallerFailed
              \/ UncaughtError

\* a run that exits 1 on the failed preflight check, on a supported platform
C6_Witness ==
    /\ pc = "exited" /\ exitCode = 1
    /\ PreflightFailed
    /\ ~UnsupportedPlatform /\ ~NoBinariesLocated

(***************************************************************************)
(* C7                                                                      *)
(***************************************************************************)

\* each located binary is in the output directory, each binary that was not
\* located is left out and warned about
AssembledBestEffort ==
    /\ "neutron" \in out <=> real_neutron_path # "None"
    /\ "box" \in out <=> real_box_path # "None"
    /\ real_neutron_path = "None" => "warning: neutron not found" \in printed
    /\ real_box_path = "None" => "warning: box not found" \in printed

OneBinaryLocated ==
    LocateDone /\ (real_neutron_path # "None" \/ real_box_path # "None")

\* C7 as stated: with at least one of the two binaries located after the build
\* phase, the assembly completes as described and the process exits 0
C7_Original ==
    Terminated /\ OneBinaryLocated => AssembledBestEffort /\ exitCode = 0

\* C7 amended: with at least one of the two binaries located after the build
\* phase, the assembly completes as described; the process exits 0, except that
\* it exits 1 when the installer asked for on Windows cannot be generated
C7_BestEffortPackaging ==
    Terminated /\ OneBinaryLocated =>
        /\ AssembledBestEffort
        /\ exitCode = 0 \/ (exitCode = 1 /\ InstallerFailed)
        /\ ~(args.installer /\ os_type = "windows") => exitCode = 0

\* the interpreter missing, the package manager present, exit status 0
C7_Witness ==
    /\ pc = "done" /\ exitCode = 0
    /\ real_neutron_path = "None" /\ real_box_path # "None"
    /\ "box" \in out /\ "neutron" \notin out
    /\ "warning: neutron not found" \in printed

(***************************************************************************)
(* C8                                                                      *)
(***************************************************************************)

\* C8: after an UNRECOVERABLE diagnosis the remediation text is printed, the
\* configure command is not invoked again, and build_neutron ends in DEGRADED
C8_UnrecoverableDegrades ==
    \A i \in DOMAIN events :
        events[i] = "diag_UNRECOVERABLE" =>
            /\ "remediation" \in printed
            /\ NoConfigureAfter(i)
            /\ pc # "bn_sleep"
            /\ ~BN_Raised
            /\ BN_Returned => BN_Degraded

\* an UNRECOVERABLE diagnosis after which build_neutron returned DEGRADED
C8_Witness ==
    /\ \E i \in DOMAIN events : events[i] = "diag_UNRECOVERABLE"
    /\ BN_Degraded

(***************************************************************************)
(* C9                                                                      *)
(***************************************************************************)

\* C9 as stated: after a NONE diagnosis the target is DEGRADED only once the
\* configure command has been invoked max_attempts times
C9_Original ==
    (\E i \in DOMAIN events : events[i] = "diag_NONE") /\ BN_Returned
        => ConfigureCount = max_attempts

\* C9 amended: after a NONE diagnosis the target goes to DEGRADED at once, with
\* no further configure attempt, whether or not the ceiling has been reached
C9_NoneDegradesAtOnce ==
    \A i \in DOMAIN events :
        events[i] = "diag_NONE" =>
            /\ NoConfigureAfter(i)
            /\ pc # "bn_sleep"
            /\ ConfigureCount \in 1..max_attempts
            /\ ~BN_Raised
            /\ BN_Returned => BN_Degraded

\* a NONE diagnosis after the first attempt, and build_neutron DEGRADED
C9_Witness ==
    /\ \E i \in DOMAIN events : events[i] = "diag_NONE"
    /\ BN_Degraded
    /\ ConfigureCount = 1

(***************************************************************************)
(* C10                                                                     *)
(***************************************************************************)

\* position i of events is the diagnosis of attempt number k
AttemptAt(i) == Count(SubSeq(events, 1, i), ConfigureEvents)

\* build_neutron is past its retry loop
PastLoop == pc \notin {"bn_enter", "bn_loop", "bn_configure", "bn_diagnose", "bn_sleep"}

\* C10: a RETRY diagnosis follows a configure failure and is followed by the
\* delay; when attempt k < max_attempts failed, the delay is followed by the
\* cache scan and the configure command of attempt k+1
C10_RetryOrder ==
    \A i \in DOMAIN events :
        events[i] = "diag_RETRY" =>
            /\ i > 1 /\ events[i - 1] = "configure_fail"
            /\ i + 1 <= Len(events) => events[i + 1] = "sleep"
            /\ AttemptAt(i) < max_attempts =>
                  /\ i + 2 <= Len(events) => events[i + 2] = "scan"
                  /\ i + 3 <= Len(events) => events[i + 3] \in ConfigureEvents
                  /\ PastLoop => i + 3 <= Len(events) /\ AttemptAt(i + 3) = AttemptAt(i) + 1
            /\ AttemptAt(i) = max_attempts =>
                  \A j \in DOMAIN events : j > i => events[j] \notin ConfigureEvents \cup {"scan"}

\* a retry was performed: failure, diagnosis, delay, scan, configure
C10_Witness ==
    \E i \in DOMAIN events :
        /\ events[i] = "diag_RETRY"
        /\ i + 3 <= Len(events)
        /\ events[i - 1] = "configure_fail"
        /\ events[i + 1] = "sleep" /\ events[i + 2] = "scan"
        /\ events[i + 3] \in ConfigureEvents

(***************************************************************************)
(* C11                                                                     *)
(***************************************************************************)

\* C11: whenever build_neutron returns False, the configure command was invoked
\* exactly max_attempts times, each invocation failed and was followed at once
\* by DiagnoseLog, and no CMakeCache.txt exists
C11_FatalOnlyAfterCeiling ==
    neutron_success = "False" =>
        /\ ConfigureCount = max_attempts
        /\ attempt = max_attempts
        /\ \A i \in DOMAIN events :
              events[i] \in ConfigureEvents =>
                  /\ events[i] = "configure_fail"
                  /\ i + 1 <= Len(events)
                  /\ events[i + 1] \in {"diag_RETRY", "diag_NONE", "diag_UNRECOVERABLE"}
        /\ ~cmakeCache

\* build_neutron has returned False
C11_Witness ==
    /\ neutron_success = "False"
    /\ pc = "box_enter"
    /\ Count(events, {"diag_RETRY"}) = max_attempts

(***************************************************************************)
(* C12                                                                     *)
(***************************************************************************)

\* C12: a call of _cleanup_vcpkg_downloads right after another one returns an
\* empty list and leaves the cache as it is; after any call that returned, the
\* cache holds nothing the scan would remove
C12_ScanIdempotent ==
    call.op = "scan" /\ ~call.raised =>
        /\ CleanupRemoved(cache) = {}
        /\ call.prev \in {"scan", "scan_removed"} =>
              /\ call.removed = {}
              /\ cache = call.before

\* a second scan right after a scan that removed an entry
C12_Witness ==
    /\ call.op = "scan" /\ ~call.raised
    /\ call.prev = "scan_removed"
    /\ call.removed = {}
    /\ \E n \in DlNames : cache.dl[n] = "absent"

(***************************************************************************)
(* C13                                                                     *)
(***************************************************************************)

\* _handle_vcpkg_manifest_log has returned from a log whose only error line is
\* "ERROR: <p>" and that names no tool failure
OnlyErrorLine(p) ==
    /\ call.op = "diagnose" /\ ~call.raised
    /\ manifestLog.state = "ok"
    /\ manifestLog.errs = {p}
    /\ manifestLog.words = {}

\* the entries of the downloads directory the general cleanup pass removes
Scannable(c, n) ==
    \/ c.dl[n] = "empty"
    \/ IsZipName(n) /\ c.dl[n] \in {"corrupt", "badcrc"}

C14_FailuresContained ==
    call.op \in {"scan", "diagnose", "extract"} => ~call.raised

(***************************************************************************)
(* C15                                                                     *)
(***************************************************************************)

\* C15: after _manual_extract_zip the target directory is either the complete
\* newly extracted tree, and the call returned True, or what it was before the
\* call, and the call returned False
C15_AtomicReplace ==
    call.op = "extract" =>
        \/ call.ret /\ cache.tools[call.tool] = "new"
        \/ ~call.ret /\ cache.tools[call.tool] = call.before.tools[call.tool]

(***************************************************************************)
(* C16                                                                     *)
(***************************************************************************)

\* the order of the candidate places
CandidateOrder == <<"std", "Release", "Debug", "MinSizeRel", "RelWithDebInfo", "root">>

\* path is the first place of CandidateOrder at which binary b exists, or None
\* when it exists at none of them
FirstInOrder(b, path) ==
    IF \A i \in DOMAIN CandidateOrder : <<b, CandidateOrder[i]>> \notin files
    THEN path = "None"
    ELSE \E i \in DOMAIN CandidateOrder :
            /\ path = CandidateOrder[i]
            /\ <<b, CandidateOrder[i]>> \in files
            /\ \A j \in DOMAIN CandidateOrder :
                  j < i => <<b, CandidateOrder[j]>> \notin files

\* C16: after the build phase the locator returns, for the interpreter and for
\* the package manager, the first existing path in the order standard output
\* directory, Release, Debug, MinSizeRel, RelWithDebInfo, project root, and
\* not-found only when none of them exists
C16_FirstExistingInOrder ==
    LocateDone =>
        /\ FirstInOrder("neutron", real_neutron_path)
        /\ FirstInOrder("box", real_box_path)

\* the interpreter is found by the broader search although a later candidate
\* exists as well, and the package manager is found in the standard directory
C16_Witness ==
    /\ LocateDone
    /\ real_neutron_path = "MinSizeRel"
    /\ <<"neutron", "root">> \in files
    /\ real_box_path = "std"
    /\ <<"box", "Release">> \in files

(***************************************************************************)
(* C17                                                                     *)
(***************************************************************************)

\* the line is a File directive with a quoted glob pattern
IsGlobFileDirective(line) ==
    line.head \in {"File", "file /r"} /\ line.quoted /\ HasStar(line.text)

\* C17: the output script has the lines of the input script in the same
\* order; a line is prefixed with '; ' exactly when it is a File directive with
\* a quoted glob pattern that matches no file, and is copied unchanged otherwise
C17_CommentsDeadGlobs ==
    temp_nsi # "none" =>
        /\ Len(temp_nsi) = Len(installer_nsi)
        /\ \A i \in DOMAIN installer_nsi :
              /\ temp_nsi[i].line = installer_nsi[i]
              /\ temp_nsi[i].prefix = "; " <=>
                    (IsGlobFileDirective(installer_nsi[i])
                     /\ installer_nsi[i].text \notin matching)
              /\ temp_nsi[i].prefix \in {"; ", ""}

\* a script with a dead glob, commented out, before a File directive without
\* a wildcard whose file does not exist, copied
C17_Witness ==
    /\ temp_nsi # "none"
    /\ Len(temp_nsi) = MaxLines
    /\ temp_nsi[1].prefix = "; "
    /\ temp_nsi[MaxLines].prefix = ""
    /\ temp_nsi[MaxLines].line.head = "File"
    /\ temp_nsi[MaxLines].line.quoted
    /\ temp_nsi[MaxLines].line.text = "neutron.exe"
    /\ "neutron.exe" \notin matching

(***************************************************************************)
(* C18                                                                     *)
(***************************************************************************)

\* the smoke test of binary b ended with result r, which is not a zero exit
VerifyFailed(b, r) == (b \o " failed verification: " \o r) \in printed

\* the path the locator returned for binary b
LocatedAt(b) == IF b = "neutron" THEN real_neutron_path ELSE real_box_path

\* the assembly has copied the binaries
AssembleDone ==
    \/ pc \in {"version", "version_blocked", "installer", "done"}
    \/ pc = "exited" /\ InstallerFailed

\* C18: whatever the smoke test of a located binary gave, the process does not
\* exit because of it (an exit after a failed smoke test is the exit of a
\* failed installer generation) and the binary is copied into the output
\* directory; a warning is printed for located binaries only
C18_VerificationAdvisory ==
    \A b \in {"neutron", "box"} :
        /\ \A r \in VerifyResults :
              VerifyFailed(b, r) =>
                  /\ r # "ok"
                  /\ LocatedAt(b) # "None"
                  /\ pc \notin {"raised"}
                  /\ pc = "exited" => InstallerFailed /\ exitCode = 1
                  /\ pc \in {"assemble"} \/ AssembleDone
        /\ AssembleDone /\ LocatedAt(b) # "None" => b \in out

\* both smoke tests failed, one by timeout and one at launch, and main ended
\* with both binaries in the output directory
C18_Witness ==
    /\ pc = "done" /\ exitCode = 0
    /\ VerifyFailed("neutron", "timeout")
    /\ VerifyFailed("box", "launch_error")
    /\ {"neutron", "box"} \subseteq out

(***************************************************************************)
(* C19                                                                     *)
(***************************************************************************)

\* the OS classifier of an OS name, "unsupported" outside the supported set
ActualOs(system) ==
    IF system = "darwin" THEN "macos"
    ELSE IF system \in {"linux", "windows"} THEN system
    ELSE "unsupported"

\* the architecture classifier of a machine name on an OS: 64-bit x86 is intel
\* on macOS and x64 elsewhere, 64-bit ARM is arm64
ActualArch(system, machine) ==
    IF machine \in {"x86_64", "amd64"}
    THEN IF system = "darwin" THEN "intel" ELSE "x64"
    ELSE IF machine \in {"arm64", "aarch64"} THEN "arm64"
    ELSE "unsupported"

\* get_os_info has been called
OsInfoDone == pc \in {"prelocate", "preflight"} \/ (pc = "exited" /\ args.mode = "package")

\* C19: get_os_info returns the classifiers of the host's actual OS and
\* architecture when both are supported, and ends the process with status 1
\* when one of them is not; it never returns 'unknown'
C19_ClassifiesHost ==
    OsInfoDone =>
        IF ActualOs(host[1]) # "unsupported"
           /\ ActualArch(host[1], host[2]) # "unsupported"
        THEN /\ pc # "exited"
             /\ os_type = ActualOs(host[1])
             /\ arch_type = ActualArch(host[1], host[2])
        ELSE pc = "exited" /\ exitCode = 1

(***************************************************************************)
(* C20                                                                     *)
(***************************************************************************)

\* C20: every invocation of a built binary is bounded by a timeout, so main
\* reaches its end or an exit even when a built binary does not return
C20_MainTerminates == <>Terminated

(***************************************************************************)
(* C21                                                                     *)
(***************************************************************************)

\* calls of _cleanup_vcpkg_downloads so far: those of the retry loop (line 540)
\* and those DiagnoseLog made itself (line 375)
ScanCount == Count(events, {"scan"}) + Cardinality(logScans)

\* every configure invocation comes right after a scan of the retry loop
ScanBeforeConfigure ==
    \A i \in DOMAIN events :
        events[i] \in ConfigureEvents => i > 1 /\ events[i - 1] = "scan"

\* C21 as stated: every configure invocation is immediately preceded by a cache
\* scan of the same attempt, and the cache scans of build_neutron are as many as
\* its configure invocations (once the configure command of the attempt has
\* been invoked)
C21_Original ==
    /\ ScanBeforeConfigure
    /\ pc # "bn_configure" => ScanCount = ConfigureCount

\* C21 amended: every configure invocation is immediately preceded by the scan
\* the retry loop runs in the same attempt, these scans are as many as the
\* configure invocations and alternate with them; DiagnoseLog runs one more
\* scan itself after a failed configure, whenever it reads a log that reports
\* no PowerShell failure
C21_LoopScanThenConfigure ==
    /\ ScanBeforeConfigure
    /\ \A i \in DOMAIN events :
          events[i] = "scan" =>
              IF i + 1 <= Len(events) THEN events[i + 1] \in ConfigureEvents
              ELSE pc = "bn_configure"
    /\ pc # "bn_configure" => Count(events, {"scan"}) = ConfigureCount
    /\ pc = "bn_configure" => Count(events, {"scan"}) = ConfigureCount + 1
    /\ \A i \in logScans :
          /\ i \in DOMAIN events /\ i > 1
          /\ events[i] \in {"diag_RETRY", "diag_NONE"}
          /\ events[i - 1] = "configure_fail"
    /\ \A i \in DOMAIN events :
          /\ events[i] = "diag_RETRY" => i \in logScans
          /\ events[i] = "diag_UNRECOVERABLE" => i \notin logScans
    /\ ScanCount <= 2 * ConfigureCount + 1

\* a second attempt: its configure invocation follows the scan of the loop,
\* after DiagnoseLog ran its own scan
C21_Witness ==
    \E i \in logScans :
        /\ i + 3 <= Len(events)
        /\ events[i + 2] = "scan"
        /\ events[i + 3] \in ConfigureEvents
        /\ ScanCount > ConfigureCount

(***************************************************************************)
(* C22                                                                     *)
(***************************************************************************)

\* _cleanup_vcpkg_downloads has returned
ScanReturned == call.op = "scan" /\ ~call.raised

\* the entries of the downloads directory a call has removed
Gone == {n \in DlNames : call.before.dl[n] # "absent" /\ cache.dl[n] = "absent"}

\* C22: the scan removes an entry of the downloads directory only if it is a
\* zero-length regular file or an archive that does not open or fails its
\* integrity test; a non-empty file that is no archive, a valid archive and a
\* sub-directory stay, the tool folders stay, and the returned list holds
\* exactly the paths removed
C22_ScanRemovesOnlyBad ==
    ScanReturned =>
        /\ \A n \in DlNames :
              cache.dl[n] # call.before.dl[n] =>
                  /\ cache.dl[n] = "absent"
                  /\ \/ call.before.dl[n] = "empty"
                     \/ IsZipName(n) /\ call.before.dl[n] \in {"corrupt", "badcrc"}
        /\ \A n \in DlNames :
              \/ call.before.dl[n] \in {"valid", "dir"}
              \/ ~IsZipName(n) /\ call.before.dl[n] # "empty"
              => cache.dl[n] = call.before.dl[n]
        /\ cache.tools = call.before.tools
        /\ call.removed = Gone

\* the scan removed an archive that fails its integrity test and returned its path
C22_Witness ==
    /\ ScanReturned
    /\ \E n \in DlNames :
          /\ call.before.dl[n] = "badcrc"
          /\ cache.dl[n] = "absent"
          /\ call.removed = {n}

(***************************************************************************)
(* C23                                                                     *)
(***************************************************************************)

\* build_box has been entered
BoxStarted ==
    \/ pc \in {"box_configure", "box_build"}
    \/ box_success # "unset"
    \/ BoxConfigureCount > 0

\* C23: build_box starts only after build_neutron has returned, and once
\* build_neutron has returned, in whichever terminal state, build_box is the
\* next thing that runs
C23_BoxAfterNeutron ==
    /\ pc = "box_enter" \/ BoxStarted => BN_Returned
    /\ pc = "box_enter" \/ BoxStarted => BN_Built \/ BN_Degraded \/ BN_Fatal
    /\ pc \in {"bn_enter", "bn_loop", "bn_configure", "bn_diagnose", "bn_sleep",
               "bn_after", "bn_build"} => ~BoxStarted /\ ~BN_Returned
    /\ BN_Returned => pc = "box_enter" \/ BoxStarted

\* build_box configuring after build_neutron ended in FATAL
C23_Witness ==
    /\ BN_Fatal
    /\ pc = "box_configure"

(***************************************************************************)
(* C24                                                                     *)
(***************************************************************************)

BuildEvents == {"build_ok", "build_fail", "build_raise"}
BoxBuildEvents == {"box_build_ok", "box_build_fail", "box_build_raise"}

\* C24: the build command of a target is invoked only after a configure attempt
\* of that target succeeded; after an UNRECOVERABLE or NONE diagnosis, or with
\* the ceiling exhausted, the target ends without a build invocation
C24_BuildOnlyAfterConfigure ==
    /\ \A i \in DOMAIN events :
          events[i] \in BuildEvents =>
              \E j \in 1..(i - 1) : events[j] = "configure_ok"
    /\ \A i \in DOMAIN events :
          events[i] \in BoxBuildEvents =>
              \E j \in 1..(i - 1) : events[j] = "box_configure_ok"
    /\ \A i \in DOMAIN events :
          events[i] \in {"diag_UNRECOVERABLE", "diag_NONE"} =>
              \A j \in DOMAIN events : j > i => events[j] \notin BuildEvents

(***************************************************************************)
(* C25                                                                     *)
(***************************************************************************)

\* C25: build_neutron returns True with the flag clear only if some configure
\* attempt of this run succeeded; a CMakeCache.txt left by an earlier run is
\* not enough when every configure attempt of this run failed
C25_BuiltNeedsConfigure ==
    BN_Built => \E i \in DOMAIN events : events[i] = "configure_ok"

(***************************************************************************)
(* C26                                                                     *)
(***************************************************************************)

\* _handle_vcpkg_manifest_log has returned
DiagnoseReturned == call.op = "diagnose" /\ ~call.raised

\* C26: a call of _handle_vcpkg_manifest_log that deleted a file the log names,
\* a 7zip tool folder or a file the cleanup pass found returns True (RETRY); it
\* returns False only if it deleted nothing
C26_DeletionMeansRetry ==
    DiagnoseReturned /\ call.removed # {} => call.ret

(***************************************************************************)
(* C27                                                                     *)
(***************************************************************************)

\* C27: when the manifest-install log does not exist or cannot be read,
\* _handle_vcpkg_manifest_log returns False and leaves the cache as it was: it
\* deletes no file and no tool folder, runs no cache scan and no extraction,
\* whatever filesystem operation would fail
C27_NoLogNoAction ==
    call.op = "diagnose" /\ manifestLog.state # "ok" =>
        /\ ~call.raised
        /\ ~call.ret
        /\ ~call.remediation
        /\ ~call.scanned
        /\ call.removed = {}
        /\ cache = call.before

\* a call on an unreadable log, with a file in the cache the scan would remove
C27_Witness ==
    /\ DiagnoseReturned
    /\ manifestLog.state = "unreadable"
    /\ CleanupRemoved(call.before) # {}
    /\ cache = call.before

(***************************************************************************)
(* C28                                                                     *)
(***************************************************************************)

\* the search for the language server is over (lines 974-986)
LspLocateDone ==
    \/ pc \in {"check", "verify", "assemble", "version", "version_blocked",
              "installer", "done"}
    \/ pc = "exited" /\ box_success # "unset"

\* C28: the language-server path that is packaged is the first path of
\* lsp_bin_paths that exists after the build phase, and not-found only when
\* none exists
C28_LspFirstExistingAfterBuild ==
    LspLocateDone => real_lsp_path = FirstExisting(bin_paths, "lsp", files)

(***************************************************************************)
(* C29                                                                     *)
(***************************************************************************)

\* C29: however build_neutron is left, by a return in one of its three
\* terminal states or by a configure or build command that cannot be
\* launched, the working directory is the one at its entry, the project root
C29_WorkingDirectoryRestored ==
    BN_Returned \/ BN_Raised => cwd = "root"

(***************************************************************************)
(* C30                                                                     *)
(***************************************************************************)

\* C30: with the files unchanged, sanitize_nsi_for_globs applied to the script
\* it wrote writes the same script again and returns changed = False; a line
\* already commented out gets no second comment mark
C30_SanitizeIdempotent ==
    again_nsi # "none" =>
        /\ changed_again = FALSE
        /\ Len(again_nsi) = Len(temp_nsi)
        /\ \A i \in DOMAIN again_nsi :
              /\ again_nsi[i].prefix = ""
              /\ ReadBack(again_nsi[i]) = ReadBack(temp_nsi[i])

\* the second call ran on a script in which the first had commented out a line
C30_Witness ==
    /\ again_nsi # "none"
    /\ changed
    /\ ~changed_again
    /\ \E i \in DOMAIN temp_nsi : temp_nsi[i].prefix = "; " /\ again_nsi[i].prefix = ""

====
